---- MODULE Spec2Model ----
(***************************************************************************)
(* TSE querier (querier.c): the query loop, the tokenizer/validator, the   *)
(* AND/OR evaluator over counters sets and the ranker.                     *)
(*                                                                         *)
(* A character is a one-character string; a C string (the line buffer, a   *)
(* word) is a sequence of characters without its terminating NUL.          *)
(* A counters set is a heap object: a linked list of (key, count) nodes.   *)
(***************************************************************************)
EXTENDS Integers, Sequences, FiniteSets, TLC

VARIABLES
  stdin,    \* the characters of the input stream not read yet
  pc,       \* where query_loop is: "read", "tokenize", "evaluate", "rank", "done"
  line,     \* char line[]: the buffer fgets filled, lowercased in place
  words,    \* char **words: the tokens of the line
  wordsMem, \* the array words points to (a heap position), NULL when none
  heap,     \* the objects allocated so far: counters sets and arrays
  index,    \* index_t: word -> counters set (a heap position)
  build,    \* what the C library and libcs50 of this build leave open
  results,  \* counters_t *results of query_loop
  stdout,   \* the lines printed to stdout
  stderr,   \* the lines printed to stderr
  lookups,  \* the words handed to index_find by the last evaluate_query
  groups,   \* the andsequences the last evaluate_query evaluated
  hist      \* one record per line taken from the stream

vars == <<stdin, pc, line, words, wordsMem, heap, index, build, results,
          stdout, stderr, lookups, groups, hist>>

----------------------------------------------------------------------------
(* Bounds of the model *)

\* the most lines an input stream of the query loop holds
MaxLines == 3
\* the most words of a generated query line
MaxWords == 4
\* the longest line enumerated character by character
MaxChars == 3

\* char line[1024] in query_loop
LINE_SIZE == 1024

----------------------------------------------------------------------------
(* Characters: <ctype.h> in the C locale, over the model's alphabet *)

Lower == {"a", "b", "n", "d", "o", "r"}
Upper == {"A", "O"}
White == {" ", "\t", "\n"}
Other == {"@"}
Char  == Lower \cup Upper \cup White \cup Other

isalpha(c) == c \in Lower \cup Upper
isspace(c) == c \in White
tolower(c) == CASE c = "A" -> "a"
                [] c = "O" -> "o"
                [] OTHER   -> c

AND == <<"a", "n", "d">>
OR  == <<"o", "r">>

NULL == 0

----------------------------------------------------------------------------
(* libcs50 counters: a set of (key, count) nodes in list order.  A heap    *)
(* object is [kind, live, items, frees, stale]; a pointer is its position  *)
(* in the heap.  frees counts the releases of the object, stale tells that *)
(* the object was accessed after its release.                              *)

\* an access to the object at p
touch(h, p) ==
  IF p # NULL /\ ~h[p].live THEN [h EXCEPT ![p].stale = TRUE] ELSE h

\* the release of the object at p
release(h, p) == [h EXCEPT ![p].live = FALSE, ![p].frees = @ + 1]

\* mem_malloc: a fresh array of the given number of slots
mem_malloc(h, kind, slots) ==
  Append(h, [kind |-> kind, live |-> TRUE, slots |-> slots,
             frees |-> 0, stale |-> FALSE])

\* mem_free: release the array
mem_free(h, ptr) == IF ptr = NULL THEN h ELSE release(h, ptr)

RECURSIVE ctrs_get(_, _)
ctrs_get(items, key) ==
  IF items = <<>> THEN 0
  ELSE IF Head(items).key = key THEN Head(items).count
  ELSE ctrs_get(Tail(items), key)

ctrs_has(items, key) == \E k \in 1..Len(items) : items[k].key = key

\* counters_new: a fresh, empty set at the next heap position
counters_new(h) ==
  Append(h, [kind |-> "counters", live |-> TRUE, items |-> <<>>,
             frees |-> 0, stale |-> FALSE])

\* counters_get: the count of key, 0 when the key is not in the set
counters_get(h, ctrs, key) ==
  IF ctrs = NULL THEN 0 ELSE ctrs_get(h[ctrs].items, key)

\* counters_set: update the node of key, or link a new node (at the head or
\* at the tail of the list, as the library build does); a negative count or a
\* NULL set changes nothing
counters_set(h, ctrs, key, count) ==
  IF ctrs = NULL \/ key < 0 \/ count < 0 THEN h
  ELSE LET items == h[ctrs].items
           new   == [key |-> key, count |-> count]
       IN IF ctrs_has(items, key)
          THEN [touch(h, ctrs) EXCEPT ![ctrs].items =
                  [k \in 1..Len(items) |->
                     IF items[k].key = key THEN new ELSE items[k]]]
          ELSE [touch(h, ctrs) EXCEPT ![ctrs].items =
                  IF build.insert = "head" THEN <<new>> \o items
                  ELSE Append(items, new)]

\* counters_delete: release the set
counters_delete(h, ctrs) ==
  IF ctrs = NULL THEN h ELSE release(h, ctrs)

\* index_find: the counters set of a word, NULL when the index lacks the word
index_find(idx, word) == IF word \in DOMAIN idx THEN idx[word] ELSE NULL

----------------------------------------------------------------------------
(* tokenize_and_validate and validate_tokens *)

\* first pass: the position of the first character that is neither a letter
\* nor white space, 0 when there is none
FirstBad(ln, k) ==
  IF \E j \in k..Len(ln) : ~isalpha(ln[j]) /\ ~isspace(ln[j])
  THEN CHOOSE j \in k..Len(ln) :
         /\ ~isalpha(ln[j]) /\ ~isspace(ln[j])
         /\ \A i \in k..(j - 1) : isalpha(ln[i]) \/ isspace(ln[i])
  ELSE 0

\* first pass: the buffer with every letter before position n lowercased
LowerUpTo(ln, n) ==
  [k \in 1..Len(ln) |-> IF k < n /\ isalpha(ln[k]) THEN tolower(ln[k]) ELSE ln[k]]

\* while (i < len && !isalpha(line[i])) i++: where the loop started at k
\* stops
SkipNonAlpha(ln, k) ==
  CHOOSE j \in k..(Len(ln) + 1) :
    /\ j > Len(ln) \/ isalpha(ln[j])
    /\ \A i \in k..(j - 1) : ~isalpha(ln[i])

\* mutant: a word ends after its first letter
ConsumeAlpha_one_letter(ln, k) == k + 1

\* while (i < len && isalpha(line[i])) i++: where the loop started at k
\* stops
ConsumeAlpha(ln, k) ==
  CHOOSE j \in k..(Len(ln) + 1) :
    /\ j > Len(ln) \/ ~isalpha(ln[j])
    /\ \A i \in k..(j - 1) : isalpha(ln[i])

\* second pass: the word loop; k is the next position of the buffer, ws the
\* words found so far
RECURSIVE SplitWords(_, _, _)
SplitWords(ln, k, ws) ==
  IF k > Len(ln) THEN ws
  ELSE LET start == SkipNonAlpha(ln, k)
       IN IF start > Len(ln) THEN ws
          ELSE LET end == ConsumeAlpha(ln, start)
               IN SplitWords(ln, end, Append(ws, SubSeq(ln, start, end - 1)))

\* mutant: a word that begins with "and" or "or" is an operator
is_operator_prefix(word) ==
  \/ Len(word) >= 3 /\ SubSeq(word, 1, 3) = AND
  \/ Len(word) >= 2 /\ SubSeq(word, 1, 2) = OR

is_operator(word) == word = AND \/ word = OR

\* the first position k >= 2 whose word and the word before it are both
\* operators, 0 when there is none
RECURSIVE FirstAdjacent(_, _)
FirstAdjacent(ws, k) ==
  IF k > Len(ws) THEN 0
  ELSE IF is_operator(ws[k - 1]) /\ is_operator(ws[k]) THEN k
  ELSE FirstAdjacent(ws, k + 1)

\* mutant: the last word is checked before the first
validate_tokens_last_first(ws) ==
  IF Len(ws) = 0 THEN <<>>
  ELSE IF is_operator(ws[Len(ws)])
       THEN <<[type |-> "last", tokens |-> <<ws[Len(ws)]>>]>>
  ELSE IF is_operator(ws[1])
       THEN <<[type |-> "first", tokens |-> <<ws[1]>>]>>
  ELSE LET k == FirstAdjacent(ws, 2)
       IN IF k # 0
          THEN <<[type |-> "adjacent", tokens |-> <<ws[k - 1], ws[k]>>]>>
          ELSE <<>>

\* validate_tokens: the diagnostics it prints (none when the words are valid)
validate_tokens(ws) ==
  IF Len(ws) = 0 THEN <<>>
  ELSE IF is_operator(ws[1])
       THEN <<[type |-> "first", tokens |-> <<ws[1]>>]>>
  ELSE IF is_operator(ws[Len(ws)])
       THEN <<[type |-> "last", tokens |-> <<ws[Len(ws)]>>]>>
  ELSE LET k == FirstAdjacent(ws, 2)
       IN IF k # 0
          THEN <<[type |-> "adjacent", tokens |-> <<ws[k - 1], ws[k]>>]>>
          ELSE <<>>

\* tokenize_and_validate: [ok, words, line, diag, slots]; slots is the
\* number of slots of the array allocated for the words, NULL when none was
\* allocated
tokenize_and_validate(ln) ==
  LET bad == FirstBad(ln, 1)
  IN IF bad # 0
     THEN [ok |-> FALSE, words |-> <<>>, line |-> LowerUpTo(ln, bad),
           diag |-> <<[type |-> "badchar", tokens |-> <<<<ln[bad]>>>>]>>,
           slots |-> NULL]
     ELSE LET low == LowerUpTo(ln, Len(ln) + 1)
              ws  == SplitWords(low, 1, <<>>)
              dg  == validate_tokens(ws)
          IN [ok |-> dg = <<>>, words |-> ws, line |-> low, diag |-> dg,
              slots |-> Len(ln) \div 2 + 1]

----------------------------------------------------------------------------
(* The counters_iterate callbacks.  m is the memory a callback can reach:   *)
(* [heap, n, array], where n is the int and array the docscore_t array the  *)
(* ranker passes by address.                                                *)

\* copy_helper: dest[key] = count
copy_helper(m, arg, key, count) ==
  [m EXCEPT !.heap = counters_set(m.heap, arg, key, count)]

\* zero_helper: dest[key] = 0
zero_helper(m, arg, key, count) ==
  [m EXCEPT !.heap = counters_set(m.heap, arg, key, 0)]

\* mutant: the maximum instead of the minimum
intersect_helper_max(m, arg, key, count) ==
  LET other    == counters_get(m.heap, arg.b, key)
      newCount == IF count > other THEN count ELSE other
  IN [m EXCEPT !.heap = counters_set(m.heap, arg.a, key, newCount)]

\* mutant: the minimum is written to b, the word's counters set
intersect_helper_into_b(m, arg, key, count) ==
  LET other    == counters_get(m.heap, arg.b, key)
      newCount == IF count < other THEN count ELSE other
  IN [m EXCEPT !.heap = counters_set(m.heap, arg.b, key, newCount)]

\* intersect_helper: a[key] = min(count, b[key]); arg is the pair {a, b}
intersect_helper(m, arg, key, count) ==
  LET other    == counters_get(m.heap, arg.b, key)
      newCount == IF count < other THEN count ELSE other
  IN [m EXCEPT !.heap = counters_set(m.heap, arg.a, key, newCount)]

\* mutant: the maximum instead of the sum
union_helper_max(m, arg, key, count) ==
  LET old == counters_get(m.heap, arg, key)
  IN [m EXCEPT !.heap = counters_set(m.heap, arg, key,
                                     IF old > count THEN old ELSE count)]

\* union_helper: dest[key] = dest[key] + count
union_helper(m, arg, key, count) ==
  LET old == counters_get(m.heap, arg, key)
  IN [m EXCEPT !.heap = counters_set(m.heap, arg, key, old + count)]

\* mutant: a score of 1 is not counted
count_nonzero_above_one(m, arg, key, count) ==
  IF count > 1 THEN [m EXCEPT !.n = m.n + 1] ELSE m

\* count_nonzero: count the entries with a positive score
count_nonzero(m, arg, key, count) ==
  IF count > 0 THEN [m EXCEPT !.n = m.n + 1] ELSE m

\* collect_nonzero: append the entries with a positive score to the array
collect_nonzero(m, arg, key, count) ==
  IF count <= 0 THEN m
  ELSE [m EXCEPT !.array = Append(m.array, [docID |-> key, score |-> count])]

itemfunc(f, m, arg, key, count) ==
  CASE f = "copy_helper"      -> copy_helper(m, arg, key, count)
    [] f = "zero_helper"      -> zero_helper(m, arg, key, count)
    [] f = "intersect_helper" -> intersect_helper(m, arg, key, count)
    [] f = "union_helper"     -> union_helper(m, arg, key, count)
    [] f = "count_nonzero"    -> count_nonzero(m, arg, key, count)
    [] f = "collect_nonzero"  -> collect_nonzero(m, arg, key, count)

\* counters_iterate: call f on every node of ctrs, in list order, reading
\* each node when it is reached
RECURSIVE iterate_from(_, _, _, _, _)
iterate_from(m, ctrs, k, arg, f) ==
  IF k > Len(m.heap[ctrs].items) THEN m
  ELSE LET node == m.heap[ctrs].items[k]
       IN iterate_from(itemfunc(f, m, arg, node.key, node.count),
                       ctrs, k + 1, arg, f)

counters_iterate(m, ctrs, arg, f) ==
  IF ctrs = NULL THEN m
  ELSE iterate_from([m EXCEPT !.heap = touch(m.heap, ctrs)], ctrs, 1, arg, f)

Mem(h) == [heap |-> h, n |-> 0, array |-> <<>>]

\* counters_intersect: dest[d] = min(dest[d], src[d]) for every d of dest
counters_intersect(h, dest, src) ==
  IF dest = NULL \/ src = NULL THEN h
  ELSE counters_iterate(Mem(touch(h, src)), dest, [a |-> dest, b |-> src],
                        "intersect_helper").heap

\* counters_union: dest[d] += src[d] for every d of src
counters_union(h, dest, src) ==
  IF dest = NULL \/ src = NULL THEN h
  ELSE counters_iterate(Mem(h), src, dest, "union_helper").heap

----------------------------------------------------------------------------
(* evaluate_andsequence and evaluate_query.  Positions are 1-based: the C   *)
(* index i is position i + 1, and nwords is Len(ws).                        *)

\* mutant: the word's own counters set becomes the accumulator, no copy
and_first_alias(st, wordCtrs, h1) ==
  [st EXCEPT !.result = IF wordCtrs # NULL THEN wordCtrs ELSE Len(h1),
             !.heap = h1]

\* result == NULL: result = counters_new(), then copy the word's postings
and_first(st, wordCtrs, h1) ==
  [st EXCEPT !.result = Len(h1),
             !.heap = IF wordCtrs # NULL
                      THEN counters_iterate(Mem(h1), wordCtrs, Len(h1),
                                            "copy_helper").heap
                      ELSE h1]

\* mutant: a word the index lacks empties the accumulator
and_next_drops(st, wordCtrs) ==
  IF wordCtrs = NULL
  THEN [st EXCEPT !.heap = [st.heap EXCEPT ![st.result].items = <<>>]]
  ELSE [st EXCEPT !.heap = counters_intersect(st.heap, st.result, wordCtrs)]

\* result != NULL: zero every score, or intersect with the word's postings
and_next(st, wordCtrs) ==
  IF wordCtrs = NULL
  THEN [st EXCEPT !.heap = counters_iterate(Mem(st.heap), st.result,
                                            st.result, "zero_helper").heap]
  ELSE [st EXCEPT !.heap = counters_intersect(st.heap, st.result, wordCtrs)]

and_accumulate(st, wordCtrs) ==
  IF st.result = NULL THEN and_first(st, wordCtrs, counters_new(st.heap))
  ELSE and_next(st, wordCtrs)

\* for the record: the word looked up and the accumulator after it
and_record(st, word) ==
  [st EXCEPT !.looked = Append(@, word),
             !.steps  = Append(@, st.heap[st.result].items)]

\* the body of the while loop for a real word at position k
and_word(st, idx, ws, k) ==
  and_record(and_accumulate(st, index_find(idx, ws[k])), ws[k])

\* mutant: an explicit "and" is not skipped, it is looked up like a word
RECURSIVE and_loop_and_is_word(_, _, _, _)
and_loop_and_is_word(st, idx, ws, k) ==
  IF k <= Len(ws) /\ ws[k] # OR
  THEN and_loop_and_is_word(and_word(st, idx, ws, k), idx, ws, k + 1)
  ELSE [st EXCEPT !.end = k]

\* mutant: "or" does not end the andsequence, it is skipped like "and"
RECURSIVE and_loop_through_or(_, _, _, _)
and_loop_through_or(st, idx, ws, k) ==
  IF k <= Len(ws)
  THEN IF ws[k] = AND \/ ws[k] = OR
       THEN and_loop_through_or(st, idx, ws, k + 1)
       ELSE and_loop_through_or(and_word(st, idx, ws, k), idx, ws, k + 1)
  ELSE [st EXCEPT !.end = k]

\* the while loop of evaluate_andsequence from position k on
RECURSIVE and_loop(_, _, _, _)
and_loop(st, idx, ws, k) ==
  IF k <= Len(ws) /\ ws[k] # OR
  THEN IF ws[k] = AND
       THEN and_loop(st, idx, ws, k + 1)
       ELSE and_loop(and_word(st, idx, ws, k), idx, ws, k + 1)
  ELSE [st EXCEPT !.end = k]

\* if (result == NULL) result = counters_new()
and_return(st) ==
  IF st.result = NULL
  THEN [st EXCEPT !.heap = counters_new(st.heap), !.result = Len(st.heap) + 1]
  ELSE st

\* evaluate_andsequence: [heap, result, end] and, for the record, the words
\* looked up and the accumulator after each of them
evaluate_andsequence(h, idx, ws, start) ==
  and_return(and_loop([heap |-> h, result |-> NULL, end |-> start,
                       looked |-> <<>>, steps |-> <<>>], idx, ws, start))

\* mutant: the placeholder is not deleted when the first group replaces it
or_merge_keeps_placeholder(st, ws, k, a) ==
  [heap |-> IF ~st.haveOrResult
            THEN a.heap
            ELSE counters_delete(
                   counters_union(a.heap, st.orResult, a.result), a.result),
   orResult |-> IF ~st.haveOrResult THEN a.result ELSE st.orResult,
   haveOrResult |-> TRUE,
   i |-> IF a.end <= Len(ws) /\ ws[a.end] = OR THEN a.end + 1 ELSE a.end,
   looked |-> st.looked \o a.looked,
   groups |-> Append(st.groups,
                     [start |-> k, end |-> a.end,
                      items |-> a.heap[a.result].items, steps |-> a.steps])]

\* the while loop of evaluate_query after evaluate_andsequence returned a
\* for the group at position k
or_merge(st, ws, k, a) ==
  [heap |-> IF ~st.haveOrResult
            THEN counters_delete(a.heap, st.orResult)
            ELSE counters_delete(
                   counters_union(a.heap, st.orResult, a.result), a.result),
   orResult |-> IF ~st.haveOrResult THEN a.result ELSE st.orResult,
   haveOrResult |-> TRUE,
   i |-> IF a.end <= Len(ws) /\ ws[a.end] = OR THEN a.end + 1 ELSE a.end,
   looked |-> st.looked \o a.looked,
   groups |-> Append(st.groups,
                     [start |-> k, end |-> a.end,
                      items |-> a.heap[a.result].items, steps |-> a.steps])]

\* one iteration of the while loop of evaluate_query, at position k
or_step(st, idx, ws, k) ==
  or_merge(st, ws, k, evaluate_andsequence(st.heap, idx, ws, k))

RECURSIVE or_loop(_, _, _)
or_loop(st, idx, ws) ==
  IF st.i <= Len(ws) THEN or_loop(or_step(st, idx, ws, st.i), idx, ws) ELSE st

evaluate_query_from(h0, idx, ws) ==
  or_loop([heap |-> h0, orResult |-> Len(h0), haveOrResult |-> FALSE,
           i |-> 1, looked |-> <<>>, groups |-> <<>>], idx, ws)

\* evaluate_query: [heap, orResult] and, for the record, the words looked up
\* and the groups evaluated
evaluate_query(h, idx, ws) == evaluate_query_from(counters_new(h), idx, ws)

----------------------------------------------------------------------------
(* rank_and_print *)

\* cmp_docscore_desc: the qsort comparison
cmp_docscore_desc(a, b) == b.score - a.score

\* insert x into the sorted array arr behind every element that does not
\* compare greater than it
RECURSIVE insert_sorted(_, _)
insert_sorted(arr, x) ==
  IF arr = <<>> THEN <<x>>
  ELSE IF cmp_docscore_desc(Head(arr), x) <= 0
       THEN <<Head(arr)>> \o insert_sorted(Tail(arr), x)
       ELSE <<x>> \o arr

RECURSIVE sort_from(_, _, _)
sort_from(arr, k, acc) ==
  IF k > Len(arr) THEN acc ELSE sort_from(arr, k + 1, insert_sorted(acc, arr[k]))

Reverse(arr) == [k \in 1..Len(arr) |-> arr[Len(arr) + 1 - k]]

\* qsort: the array ordered by the comparison; elements that compare equal
\* come out in an order the C library chooses (here: as they were, or
\* reversed)
qsort(arr) ==
  IF build.qsort = "stable" THEN sort_from(arr, 1, <<>>)
  ELSE sort_from(Reverse(arr), 1, <<>>)

\* the page files of pageDirectory: docID -> first line (the URL)
PageDirectory == (1 :> "http://one") @@ (2 :> "http://two")

\* get_url: the URL of a document, "(no-url)" standing for NULL
get_url(docID) ==
  IF docID <= 0 \/ docID \notin DOMAIN PageDirectory THEN "(no-url)"
  ELSE PageDirectory[docID]

Separator == [type |-> "separator"]

\* mutant: "no match" is printed without the separator line, and the count
\* line after the entries
rank_and_print_loose(h, res) ==
  LET n    == counters_iterate(Mem(h), res, "n", "count_nonzero").n
      docs == qsort(counters_iterate(Mem(h), res, "arg", "collect_nonzero").array)
  IN IF n = 0
     THEN [heap |-> touch(h, res), n |-> 0, docs |-> <<>>,
           out |-> <<[type |-> "nomatch"]>>]
     ELSE [heap |-> mem_free(mem_malloc(touch(h, res), "docs", n), Len(h) + 1),
           n |-> n, docs |-> docs,
           out |-> [k \in 1..n |->
                      [type |-> "entry", score |-> docs[k].score,
                       docID |-> docs[k].docID, url |-> get_url(docs[k].docID)]]
                   \o <<[type |-> "matches", n |-> n], Separator>>]

\* rank_and_print: [heap, n, docs, out]: the count of matches, the sorted
\* array (allocated for n > 0 and freed before the return) and the lines
\* printed
rank_and_print(h, res) ==
  LET n    == counters_iterate(Mem(h), res, "n", "count_nonzero").n
      docs == qsort(counters_iterate(Mem(h), res, "arg", "collect_nonzero").array)
  IN IF n = 0
     THEN [heap |-> touch(h, res), n |-> 0, docs |-> <<>>,
           out |-> <<[type |-> "nomatch"], Separator>>]
     ELSE [heap |-> mem_free(mem_malloc(touch(h, res), "docs", n), Len(h) + 1),
           n |-> n, docs |-> docs,
           out |-> <<[type |-> "matches", n |-> n]>>
                   \o [k \in 1..n |->
                         [type |-> "entry", score |-> docs[k].score,
                          docID |-> docs[k].docID, url |-> get_url(docs[k].docID)]]
                   \o <<Separator>>]

----------------------------------------------------------------------------
(* query_loop *)

\* the position of the first newline of a stream at or after k, 0 if none
FirstNewline(s, k) ==
  IF \E j \in k..Len(s) : s[j] = "\n"
  THEN CHOOSE j \in k..Len(s) :
         s[j] = "\n" /\ \A i \in k..(j - 1) : s[i] # "\n"
  ELSE 0

Min(a, b) == IF a < b THEN a ELSE b

\* fgets(line, size, stdin): at most size - 1 characters, through the first
\* newline: [buf, rest]
fgets(size, stream) ==
  LET nl == FirstNewline(stream, 1)
      n  == Min(size - 1, IF nl = 0 THEN Len(stream) ELSE nl)
  IN [buf |-> SubSeq(stream, 1, n), rest |-> SubSeq(stream, n + 1, Len(stream))]

\* while (fgets(line, sizeof(line), stdin) != NULL)
Fgets ==
  /\ pc = "read"
  /\ stdin # <<>>
  /\ LET r == fgets(LINE_SIZE, stdin)
     IN /\ line' = r.buf
        /\ stdin' = r.rest
        /\ hist' = Append(hist, [raw |-> r.buf, state |-> "read", words |-> <<>>,
                                 err |-> <<>>, out |-> <<>>, scores |-> <<>>,
                                 docs |-> <<>>])
  /\ words' = <<>>
  /\ wordsMem' = NULL
  /\ pc' = "tokenize"
  /\ UNCHANGED <<heap, index, build, results, stdout, stderr, lookups, groups>>

\* fgets returns NULL at end of input: the loop ends, printf("\n")
Eof ==
  /\ pc = "read"
  /\ stdin = <<>>
  /\ stdout' = Append(stdout, [type |-> "newline"])
  /\ pc' = "done"
  /\ UNCHANGED <<stdin, line, words, wordsMem, heap, index, build, results,
                 stderr, lookups, groups, hist>>

\* the array tokenize_and_validate allocated (none when slots is NULL) is
\* handed to the caller, who frees it: if (words != NULL) mem_free(words)
Freed(slots) ==
  IF slots = NULL
  THEN wordsMem' = NULL /\ heap' = heap
  ELSE /\ wordsMem' = Len(heap) + 1
       /\ heap' = mem_free(mem_malloc(heap, "words", slots), Len(heap) + 1)

\* mutant: no "continue" after an invalid query
RejectFallsThrough ==
  /\ pc = "tokenize"
  /\ LET t == tokenize_and_validate(line)
     IN /\ ~t.ok
        /\ line' = t.line
        /\ words' = t.words
        /\ stderr' = stderr \o t.diag
        /\ hist' = [hist EXCEPT ![Len(hist)].state = "rejected",
                                ![Len(hist)].words = t.words,
                                ![Len(hist)].err = t.diag]
        /\ Freed(t.slots)
  /\ pc' = "evaluate"
  /\ UNCHANGED <<stdin, index, build, results, stdout, lookups, groups>>

\* tokenize_and_validate returns false: the diagnostic is printed, continue
Reject ==
  /\ pc = "tokenize"
  /\ LET t == tokenize_and_validate(line)
     IN /\ ~t.ok
        /\ line' = t.line
        /\ words' = t.words
        /\ stderr' = stderr \o t.diag
        /\ hist' = [hist EXCEPT ![Len(hist)].state = "rejected",
                                ![Len(hist)].words = t.words,
                                ![Len(hist)].err = t.diag]
        /\ Freed(t.slots)
  /\ pc' = "read"
  /\ UNCHANGED <<stdin, index, build, results, stdout, lookups, groups>>

\* mutant: a blank line ends the loop
BlankEndsLoop ==
  /\ pc = "tokenize"
  /\ LET t == tokenize_and_validate(line)
     IN /\ t.ok
        /\ Len(t.words) = 0
        /\ line' = t.line
        /\ words' = t.words
        /\ hist' = [hist EXCEPT ![Len(hist)].state = "blank"]
        /\ Freed(t.slots)
  /\ pc' = "done"
  /\ UNCHANGED <<stdin, index, build, results, stdout, stderr,
                 lookups, groups>>

\* nwords == 0: a blank line, continue
Blank ==
  /\ pc = "tokenize"
  /\ LET t == tokenize_and_validate(line)
     IN /\ t.ok
        /\ Len(t.words) = 0
        /\ line' = t.line
        /\ words' = t.words
        /\ hist' = [hist EXCEPT ![Len(hist)].state = "blank"]
        /\ Freed(t.slots)
  /\ pc' = "read"
  /\ UNCHANGED <<stdin, index, build, results, stdout, stderr,
                 lookups, groups>>

\* a valid query: print the cleaned query
Accept ==
  /\ pc = "tokenize"
  /\ LET t == tokenize_and_validate(line)
     IN /\ t.ok
        /\ Len(t.words) > 0
        /\ line' = t.line
        /\ words' = t.words
        /\ stdout' = Append(stdout, [type |-> "query", words |-> t.words])
        /\ hist' = [hist EXCEPT ![Len(hist)].state = "accepted",
                                ![Len(hist)].words = t.words,
                                ![Len(hist)].out =
                                    <<[type |-> "query", words |-> t.words]>>]
        /\ wordsMem' = Len(heap) + 1
        /\ heap' = mem_malloc(heap, "words", t.slots)
  /\ pc' = "evaluate"
  /\ UNCHANGED <<stdin, index, build, results, stderr, lookups, groups>>

\* counters_t *results = evaluate_query(index, words, nwords)
Returned(r) ==
  /\ heap' = r.heap
  /\ results' = r.orResult
  /\ lookups' = r.looked
  /\ groups' = r.groups
  /\ hist' = [hist EXCEPT ![Len(hist)].state = "evaluated",
                          ![Len(hist)].scores = r.heap[r.orResult].items]

Evaluate ==
  /\ pc = "evaluate"
  /\ Returned(evaluate_query(touch(heap, wordsMem), index, words))
  /\ pc' = "rank"
  /\ UNCHANGED <<stdin, line, words, wordsMem, index, build, stdout, stderr>>

\* rank_and_print has returned r: counters_delete(results); mem_free(words)
Printed(r) ==
  /\ stdout' = stdout \o r.out
  /\ hist' = [hist EXCEPT ![Len(hist)].state = "ranked",
                          ![Len(hist)].out = hist[Len(hist)].out \o r.out,
                          ![Len(hist)].docs = r.docs]
  /\ heap' = mem_free(counters_delete(r.heap, results), wordsMem)

\* rank_and_print(results, pageDirectory); counters_delete(results);
\* mem_free(words)
Rank ==
  /\ pc = "rank"
  /\ Printed(rank_and_print(heap, results))
  /\ pc' = "read"
  /\ UNCHANGED <<stdin, line, words, wordsMem, index, build, results, stderr,
                 lookups, groups>>

Next == Fgets \/ Eof \/ Reject \/ Blank \/ Accept \/ Evaluate \/ Rank

----------------------------------------------------------------------------
(* The states the program starts in: an index loaded by index_load, an     *)
(* input stream, and a build.                                               *)

Builds == [insert : {"head", "tail"}, qsort : {"stable", "reversed"}]

Docs   == {1, 2, 3}
Counts == {1, 2}

\* the documents of a posting function f (docID -> count, 0: not posted)
\* from position k of the order ord on, as a list of nodes
RECURSIVE NodesOf(_, _, _)
NodesOf(f, ord, k) ==
  IF k > Len(ord) THEN <<>>
  ELSE IF ord[k] \in DOMAIN f /\ f[ord[k]] > 0
       THEN <<[key |-> ord[k], count |-> f[ord[k]]]>> \o NodesOf(f, ord, k + 1)
       ELSE NodesOf(f, ord, k + 1)

\* the counters set index_load builds from the pairs of f, read in ascending
\* docID order
Loaded(f, bld) ==
  NodesOf(f, IF bld.insert = "head" THEN <<3, 2, 1>> ELSE <<1, 2, 3>>, 1)

Absent == [d \in {} |-> 0]

\* the words an index may hold, in heap order
IndexWords == << <<"a">>, <<"b">>, AND, OR >>

\* an index content: for each position of IndexWords a posting function, or
\* Absent when the index lacks the word
Present(c) == {k \in 1..Len(IndexWords) : c[k] # Absent}
Slot(c, k) == Cardinality({j \in Present(c) : j <= k})

MkHeap(c, bld) ==
  [p \in 1..Cardinality(Present(c)) |->
     [kind |-> "counters", live |-> TRUE,
      items |-> Loaded(c[CHOOSE k \in Present(c) : Slot(c, k) = p], bld),
      frees |-> 0, stale |-> FALSE]]

MkIndex(c) ==
  [w \in {IndexWords[k] : k \in Present(c)} |->
     Slot(c, CHOOSE k \in Present(c) : IndexWords[k] = w)]

\* the postings of a word over the documents 1 and 2
Postings2 == {f \in [{1, 2} -> Counts \cup {0}] : \E d \in {1, 2} : f[d] > 0}

\* indexes for the evaluator: any postings of "a" and "b" over two documents,
\* with or without postings for the words "and" and "or"
EvalContents ==
  {<<pa, pb, po[1], po[2]>> :
     pa \in Postings2 \cup {Absent}, pb \in Postings2 \cup {Absent},
     po \in {<<Absent, Absent>>, <<(1 :> 2) @@ (2 :> 2), (1 :> 1) @@ (3 :> 2)>>}}

\* indexes for the query loop
LoopContents ==
  { <<(1 :> 2) @@ (2 :> 1), (1 :> 3), Absent, Absent>>,
    <<(3 :> 1), (2 :> 1), Absent, Absent>>,
    <<(1 :> 1) @@ (2 :> 1) @@ (3 :> 1), (2 :> 2) @@ (3 :> 2), (1 :> 2), Absent>>,
    <<Absent, (1 :> 1) @@ (3 :> 1), Absent, (2 :> 1)>> }

SeqsUpTo(S, n) == UNION {[1..k -> S] : k \in 0..n}

RECURSIVE Join(_)
Join(ws) ==
  IF ws = <<>> THEN <<>>
  ELSE IF Len(ws) = 1 THEN ws[1]
  ELSE ws[1] \o <<" ">> \o Join(Tail(ws))

RECURSIVE Concat(_)
Concat(ss) == IF ss = <<>> THEN <<>> ELSE Head(ss) \o Concat(Tail(ss))

Vocabulary == {<<"a">>, <<"b">>, AND, OR}

\* lines of up to MaxWords words, one space between them
WordLines == {Join(ws) \o <<"\n">> : ws \in SeqsUpTo(Vocabulary, MaxWords)}

\* every line of up to MaxChars characters, with and without its newline
CharTexts == SeqsUpTo(Char \ {"\n"}, MaxChars)
CharLines == {t \o <<"\n">> : t \in CharTexts} \cup (CharTexts \ {<<>>})

\* the lines of the streams of the query loop
LoopLines ==
  { <<"a", " ", "o", "r", " ", "b", "\n">>,
    <<"b", " ", "o", "r", " ", "a", "\n">>,
    <<"A", " ", "a", "n", "d", " ", "b", "\n">>,
    <<"a", "n", "d", " ", "o", "r", "\n">>,
    <<"a", "@", "\n">>,
    <<" ", "\n">> }

LoopStreams == {Concat(ls) : ls \in SeqsUpTo(LoopLines, MaxLines)}

Start(stream, c, bld) ==
  /\ stdin = stream
  /\ pc = "read"
  /\ line = <<>>
  /\ words = <<>>
  /\ wordsMem = NULL
  /\ heap = MkHeap(c, bld)
  /\ index = MkIndex(c)
  /\ build = bld
  /\ results = NULL
  /\ stdout = <<>>
  /\ stderr = <<>>
  /\ lookups = <<>>
  /\ groups = <<>>
  /\ hist = <<>>

\* the query loop over a stream of up to MaxLines lines
Init == \E s \in LoopStreams, c \in LoopContents, b \in Builds : Start(s, c, b)

\* lines for the evaluator: the word lines that do not begin with an operator
EvalLines ==
  {Join(ws) \o <<"\n">> :
     ws \in {v \in SeqsUpTo(Vocabulary, MaxWords) :
               v = <<>> \/ v[1] \notin {AND, OR}}}

EvalBuilds == {[insert |-> "head", qsort |-> "stable"],
               [insert |-> "tail", qsort |-> "reversed"]}

\* one line of words against any small index
InitEval ==
  \E s \in EvalLines, c \in EvalContents, b \in EvalBuilds : Start(s, c, b)

TokContents == {<<(1 :> 2) @@ (2 :> 1), (1 :> 3), Absent, Absent>>}

\* one line of arbitrary characters or of arbitrary words
InitTok ==
  \E s \in CharLines \cup WordLines \cup LoopLines, c \in TokContents :
     Start(s, c, [insert |-> "head", qsort |-> "stable"])

\* the query loop with one build
InitFair ==
  \E s \in LoopStreams, c \in LoopContents :
     Start(s, c, [insert |-> "head", qsort |-> "stable"])

\* n times the character c
Pad(c, n) == [k \in 1..n |-> c]

\* lines that do not fit the line buffer: the buffer is full before the
\* newline is reached
LongLines ==
  { Pad("a", LINE_SIZE - 1) \o <<"b", "\n">>,
    Pad(" ", LINE_SIZE - 2) \o <<"a", "b", "\n">>,
    Pad(" ", LINE_SIZE - 1) \o <<"a", "\n">>,
    Pad(" ", LINE_SIZE - 5) \o <<"a", " ", "o", "r", " ", "b", "\n">>,
    Pad(" ", LINE_SIZE - 2) \o <<"@", " ", "\n">>,
    Pad(" ", LINE_SIZE - 2) \o <<"a", "@", "\n">> }

\* a long line, alone or before or after a line that fits
LongStreams ==
  LongLines
    \cup {l \o s : l \in LongLines, s \in LoopLines}
    \cup {s \o l : l \in LongLines, s \in LoopLines}

\* the query loop over a stream with a line longer than the line buffer
InitLong ==
  \E s \in LongStreams, c \in LoopContents :
     Start(s, c, [insert |-> "head", qsort |-> "stable"])

Spec     == Init /\ [][Next]_vars
SpecEval == InitEval /\ [][Next]_vars
SpecTok  == InitTok /\ [][Next]_vars
SpecLong == InitLong /\ [][Next]_vars
\* the program keeps running: as long as query_loop has not returned,
\* control moves on from where it is (every step of Next moves it)
Runs == pc # "done" /\ pc' \in {"read", "tokenize", "evaluate", "rank", "done"} \ {pc}
SpecFair == InitFair /\ [][Next]_vars /\ WF_pc(Runs)

----------------------------------------------------------------------------
(* What the claims speak of, stated without the evaluator *)

\* count(t, d): the count of document d in the postings of term t, 0 when
\* the index lacks t or t's postings lack d
Posted(t, d) ==
  t \in DOMAIN index /\ \E k \in 1..Len(heap[index[t]].items) :
                           heap[index[t]].items[k].key = d
Count(t, d) ==
  IF Posted(t, d)
  THEN LET its == heap[index[t]].items
       IN its[CHOOSE k \in 1..Len(its) : its[k].key = d].count
  ELSE 0

\* the score of document d in a ScoreMap given as its list of nodes
Score(items, d) ==
  IF \E k \in 1..Len(items) : items[k].key = d
  THEN items[CHOOSE k \in 1..Len(items) : items[k].key = d].count
  ELSE 0

Keys(items) == {items[k].key : k \in 1..Len(items)}

IsTerm(w) == w # AND /\ w # OR

\* the terms of the tokens ws[s..e-1]
TermsOf(ws, s, e) == SelectSeq(SubSeq(ws, s, e - 1), IsTerm)

Minimum(S) == CHOOSE m \in S : \A x \in S : m <= x

RECURSIVE SumOver(_, _, _)
SumOver(gs, k, d) ==
  IF k > Len(gs) THEN 0 ELSE Score(gs[k].items, d) + SumOver(gs, k + 1, d)

\* the positions of the "or" tokens of ws, ascending
OrPositions(ws) == {k \in 1..Len(ws) : ws[k] = OR}
NthOr(ws, n) ==
  CHOOSE k \in OrPositions(ws) :
    Cardinality({j \in OrPositions(ws) : j <= k}) = n

\* evaluate_query has returned and its record is at hand
Evaluated == pc = "rank"

----------------------------------------------------------------------------
(* The claims *)

AllDocs == Docs

GroupTerms(g) == TermsOf(words, g.start, g.end)

GroupMinimum(g, d) ==
  Minimum({Count(GroupTerms(g)[k], d) : k \in 1..Len(GroupTerms(g))})

\* C1: after evaluate_andsequence, every document in the postings of the
\* group's first term scores the minimum of the counts of the group's terms
\* (0 for an absent term or document), and a document outside the first
\* term's postings has no positive score
AndGroupIsMinimum ==
  Evaluated =>
    \A n \in 1..Len(groups) :
      /\ Len(GroupTerms(groups[n])) >= 1
      /\ \A d \in AllDocs :
           IF Posted(GroupTerms(groups[n])[1], d)
           THEN Score(groups[n].items, d) = GroupMinimum(groups[n], d)
           ELSE Score(groups[n].items, d) = 0

\* a group of several terms with a document whose positive score comes from
\* a later term, and a document of the first term's postings that a later
\* term zeroes
AndGroupWitness ==
  /\ Evaluated
  /\ \E n \in 1..Len(groups) :
       /\ Len(GroupTerms(groups[n])) >= 2
       /\ \E d \in AllDocs :
            /\ Posted(GroupTerms(groups[n])[1], d)
            /\ Score(groups[n].items, d) > 0
            /\ Score(groups[n].items, d) < Count(GroupTerms(groups[n])[1], d)
       /\ \E d \in AllDocs :
            /\ Posted(GroupTerms(groups[n])[1], d)
            /\ Score(groups[n].items, d) = 0

\* C2: the ScoreMap evaluate_query returns gives every document the sum of
\* its scores in the AND-groups of the query
OrIsSum ==
  Evaluated =>
    \A d \in AllDocs \cup Keys(heap[results].items) :
      Score(heap[results].items, d) = SumOver(groups, 1, d)

\* a document with a positive score in two groups
OrIsSumWitness ==
  /\ Evaluated
  /\ \E d \in AllDocs, m, n \in 1..Len(groups) :
       /\ m < n
       /\ Score(groups[m].items, d) > 0
       /\ Score(groups[n].items, d) > 0
       /\ Score(groups[m].items, d) # Score(groups[n].items, d)

\* C3: the groups evaluate_query evaluates are the maximal runs of tokens
\* between consecutive "or" tokens, left to right: one more group than there
\* are "or" tokens, each with at least one term
GroupsAreOrRuns ==
  Evaluated =>
    LET ors == Cardinality(OrPositions(words))
    IN /\ Len(groups) = ors + 1
       /\ \A n \in 1..Len(groups) :
            /\ groups[n].start = IF n = 1 THEN 1 ELSE NthOr(words, n - 1) + 1
            /\ groups[n].end = IF n = ors + 1 THEN Len(words) + 1
                               ELSE NthOr(words, n)
            /\ Len(GroupTerms(groups[n])) >= 1

\* "x y or z": a group of two terms, then a group of one
GroupsWitness ==
  /\ Evaluated
  /\ Len(words) = 4
  /\ words[3] = OR
  /\ IsTerm(words[1]) /\ IsTerm(words[2]) /\ IsTerm(words[4])
  /\ Len(groups) = 2
  /\ groups[1].end = 3
  /\ groups[2].start = 4

----------------------------------------------------------------------------
(* Ranking *)

IsEntry(l) == l.type = "entry"
Entries(out) == SelectSeq(out, IsEntry)
HasLine(out, t) == \E k \in 1..Len(out) : out[k].type = t

Final == {"rejected", "blank", "ranked"}

\* C4: the entries rank_and_print emits are ordered by score descending,
\* and entries with equal scores by ascending document identifier
RankedOrder ==
  \A k \in 1..Len(hist) :
    hist[k].state = "ranked" =>
      \A j \in 1..(Len(Entries(hist[k].out)) - 1) :
        LET e1 == Entries(hist[k].out)[j]
            e2 == Entries(hist[k].out)[j + 1]
        IN \/ e1.score > e2.score
           \/ e1.score = e2.score /\ e1.docID < e2.docID

\* C5: the ranked result holds exactly the documents with a positive final
\* score, each once with that score; "no results" is printed exactly when no
\* document has a positive score
FilterIsExact ==
  \A k \in 1..Len(hist) :
    hist[k].state = "ranked" =>
      LET sc == hist[k].scores
          es == Entries(hist[k].out)
      IN /\ \A d \in AllDocs \cup Keys(sc) :
              Score(sc, d) > 0 <=> \E j \in 1..Len(es) : es[j].docID = d
         /\ \A j \in 1..Len(es) :
              /\ es[j].score > 0
              /\ es[j].score = Score(sc, es[j].docID)
              /\ \A m \in 1..Len(es) : es[m].docID = es[j].docID => m = j
         /\ HasLine(hist[k].out, "nomatch")
              <=> \A d \in AllDocs \cup Keys(sc) : Score(sc, d) = 0
         /\ HasLine(hist[k].out, "nomatch") <=> ~HasLine(hist[k].out, "matches")

\* a ScoreMap with a zeroed document and a matching one, ranked
FilterWitness ==
  \E k \in 1..Len(hist) :
    /\ hist[k].state = "ranked"
    /\ \E d \in Keys(hist[k].scores) : Score(hist[k].scores, d) = 0
    /\ Len(Entries(hist[k].out)) >= 1

\* C6: the same line read twice produces the same output both times,
\* whatever was processed before or between
SameLineSameOutput ==
  \A j, k \in 1..Len(hist) :
    (/\ j < k
     /\ hist[j].raw = hist[k].raw
     /\ hist[j].state \in Final
     /\ hist[k].state \in Final)
    => /\ hist[j].out = hist[k].out
       /\ hist[j].err = hist[k].err

\* a query with several results, read first and third, another line between
SameLineWitness ==
  /\ Len(hist) = 3
  /\ hist[1].raw = hist[3].raw
  /\ hist[2].raw # hist[1].raw
  /\ hist[2].state = "ranked"
  /\ hist[3].state = "ranked"
  /\ Len(Entries(hist[3].out)) >= 2

----------------------------------------------------------------------------
(* Implicit AND *)

\* the tokens without the explicit "and"s
IsNotAnd(w) == w # AND
Implicit(ws) == SelectSeq(ws, IsNotAnd)

\* the tokens with an "and" between every two adjacent terms
RECURSIVE Explicit(_)
Explicit(ws) ==
  IF Len(ws) <= 1 THEN ws
  ELSE IF IsTerm(ws[1]) /\ IsTerm(ws[2])
       THEN <<ws[1], AND>> \o Explicit(Tail(ws))
       ELSE <<ws[1]>> \o Explicit(Tail(ws))

Nodes(items) == {items[k] : k \in 1..Len(items)}
ScoreMapOf(r) == Nodes(r.heap[r.orResult].items)

\* C7: a query evaluates to the same ScoreMap with its "and"s left out and
\* with an "and" between every two adjacent terms, and no "and" or "or" is
\* ever looked up in the index
ImplicitAndEquivalence ==
  Evaluated =>
    /\ \A k \in 1..Len(lookups) : IsTerm(lookups[k])
    /\ ScoreMapOf(evaluate_query(heap, index, Implicit(words)))
         = Nodes(heap[results].items)
    /\ ScoreMapOf(evaluate_query(heap, index, Explicit(Implicit(words))))
         = Nodes(heap[results].items)

\* the index has postings for "and" and "or"; the query has an explicit
\* "and", two adjacent terms, and a match
ImplicitAndWitness ==
  /\ Evaluated
  /\ AND \in DOMAIN index
  /\ OR \in DOMAIN index
  /\ \E k \in 1..Len(words) : words[k] = AND
  /\ \E k \in 1..(Len(words) - 1) : IsTerm(words[k]) /\ IsTerm(words[k + 1])
  /\ \E d \in AllDocs : Score(heap[results].items, d) > 0

----------------------------------------------------------------------------
(* Validation, stated on the raw line *)

Letters == Lower \cup Upper

OnlyLettersAndSpace(raw) == \A k \in 1..Len(raw) : raw[k] \in Letters \cup White

\* the maximal runs of letters of raw: where they start, where each ends
RunStarts(raw) ==
  {s \in 1..Len(raw) : raw[s] \in Letters /\ (s = 1 \/ raw[s - 1] \notin Letters)}
RunEnd(raw, s) ==
  CHOOSE e \in s..Len(raw) :
    /\ \A k \in s..e : raw[k] \in Letters
    /\ e = Len(raw) \/ raw[e + 1] \notin Letters
NthRun(raw, n) ==
  CHOOSE s \in RunStarts(raw) :
    Cardinality({t \in RunStarts(raw) : t <= s}) = n

Lowered(w) == [k \in 1..Len(w) |-> tolower(w[k])]

\* the token sequence of raw: its maximal runs of letters, lowercased
Tokens(raw) ==
  [n \in 1..Cardinality(RunStarts(raw)) |->
     Lowered(SubSeq(raw, NthRun(raw, n), RunEnd(raw, NthRun(raw, n))))]

IsOperator(tok) == tok \in {AND, OR}

GrammarOk(ts) ==
  \/ ts = <<>>
  \/ /\ ~IsOperator(ts[1])
     /\ ~IsOperator(ts[Len(ts)])
     /\ \A k \in 1..(Len(ts) - 1) : ~(IsOperator(ts[k]) /\ IsOperator(ts[k + 1]))

Acceptable(raw) == OnlyLettersAndSpace(raw) /\ GrammarOk(Tokens(raw))

Tokenized(h) == h.state # "read"

\* C8: a line is accepted if and only if all its characters are letters or
\* white space and its tokens are none, or begin and end with a term and
\* hold no two operators in a row, an operator being a token that is "and"
\* or "or" once lowercased
AcceptedIffAcceptable ==
  \A k \in 1..Len(hist) :
    Tokenized(hist[k]) =>
      (hist[k].state # "rejected" <=> Acceptable(hist[k].raw))

\* an accepted single term that begins with an upper-case "O" and with "or"
AcceptedWitness ==
  \E k \in 1..Len(hist) :
    /\ hist[k].state = "ranked"
    /\ hist[k].raw[1] = "O"
    /\ Len(hist[k].words) = 1
    /\ Len(hist[k].words[1]) = 3
    /\ SubSeq(hist[k].words[1], 1, 2) = OR

\* the diagnostic the rules give for a line that is not acceptable: bad
\* character, then operator first, then operator last, then adjacent
\* operators
FirstWhere(S) == CHOOSE k \in S : \A j \in S : k <= j

Diagnostic(raw) ==
  LET ts == Tokens(raw)
  IN IF ~OnlyLettersAndSpace(raw)
     THEN [type |-> "badchar",
           tokens |-> << <<raw[FirstWhere({k \in 1..Len(raw) :
                                   raw[k] \notin Letters \cup White})]>> >>]
     ELSE IF IsOperator(ts[1])
     THEN [type |-> "first", tokens |-> <<ts[1]>>]
     ELSE IF IsOperator(ts[Len(ts)])
     THEN [type |-> "last", tokens |-> <<ts[Len(ts)]>>]
     ELSE LET k == FirstWhere({j \in 1..(Len(ts) - 1) :
                                 IsOperator(ts[j]) /\ IsOperator(ts[j + 1])})
          IN [type |-> "adjacent", tokens |-> <<ts[k], ts[k + 1]>>]

Rejected(hs) == {k \in 1..Len(hs) : hs[k].state = "rejected"}

\* C9: a rejected line produces exactly one diagnostic, that of the first
\* rule it violates in the order bad character, operator first, operator
\* last, adjacent operators, with the offending token(s); other lines
\* produce none
OneDiagnostic ==
  /\ \A k \in 1..Len(hist) :
       Tokenized(hist[k]) =>
         hist[k].err = IF hist[k].state = "rejected"
                       THEN <<Diagnostic(hist[k].raw)>> ELSE <<>>
  /\ Len(stderr) = Cardinality(Rejected(hist))

\* a rejected line with a bad character and a leading operator that is
\* also the last token
OneDiagnosticWitness ==
  \E k \in 1..Len(hist) :
    /\ hist[k].state = "rejected"
    /\ ~OnlyLettersAndSpace(hist[k].raw)
    /\ Len(Tokens(hist[k].raw)) = 1
    /\ IsOperator(Tokens(hist[k].raw)[1])
    /\ hist[k].err[1].type = "badchar"

RECURSIVE Outputs(_, _)
Outputs(hs, k) == IF k > Len(hs) THEN <<>> ELSE hs[k].out \o Outputs(hs, k + 1)

Outcome(raw) ==
  IF ~Acceptable(raw) THEN "rejected"
  ELSE IF Tokens(raw) = <<>> THEN "blank"
  ELSE "ranked"

\* C10: a line that fails validation is never evaluated nor ranked and
\* writes nothing to stdout, and the lines after it are processed as usual
RejectedIsSkipped ==
  /\ \A k \in 1..Len(hist) :
       (Tokenized(hist[k]) /\ ~Acceptable(hist[k].raw)) =>
         /\ hist[k].state = "rejected"
         /\ hist[k].out = <<>>
         /\ hist[k].scores = <<>>
  /\ stdout = Outputs(hist, 1)
                \o (IF pc = "done" THEN <<[type |-> "newline"]>> ELSE <<>>)
  /\ \A k \in 1..(Len(hist) - 1) : hist[k].state = Outcome(hist[k].raw)
  /\ pc \in {"read", "done"} =>
       \A k \in 1..Len(hist) : hist[k].state = Outcome(hist[k].raw)
  /\ pc = "done" => stdin = <<>>

\* a rejected line followed by a line that is evaluated and ranked
RejectedWitness ==
  /\ pc = "done"
  /\ Len(hist) >= 2
  /\ hist[1].state = "rejected"
  /\ hist[2].state = "ranked"
  /\ Len(Entries(hist[2].out)) >= 1

----------------------------------------------------------------------------
(* Tokenization *)

\* the line being processed has been tokenized
LineTokenized == hist # <<>> /\ Tokenized(hist[Len(hist)])

\* C11: the tokens of a line of letters and white space are its maximal
\* runs of letters, left to right, lowercased; a line without letters gives
\* no token, is valid and produces no output; the tokens never outnumber
\* the len/2 + 1 slots of the array allocated for them
TokensAreRuns ==
  /\ \A k \in 1..Len(hist) :
       (Tokenized(hist[k]) /\ OnlyLettersAndSpace(hist[k].raw)) =>
         /\ hist[k].words = Tokens(hist[k].raw)
         /\ Tokens(hist[k].raw) = <<>> =>
              /\ hist[k].state = "blank"
              /\ hist[k].out = <<>>
              /\ hist[k].err = <<>>
         /\ hist[k].state = "blank" => Tokens(hist[k].raw) = <<>>
  /\ (LineTokenized /\ OnlyLettersAndSpace(hist[Len(hist)].raw)) =>
       /\ words = Tokens(hist[Len(hist)].raw)
       /\ wordsMem # NULL
       /\ heap[wordsMem].kind = "words"
       /\ heap[wordsMem].slots = Len(hist[Len(hist)].raw) \div 2 + 1
       /\ Len(words) <= heap[wordsMem].slots

\* a line with an upper-case letter whose two tokens fill the array, and
\* after it the end of the input
TokensWitness ==
  /\ pc = "done"
  /\ Len(hist) = 1
  /\ \E k \in 1..Len(hist[1].raw) : hist[1].raw[k] \in Upper
  /\ Len(hist[1].words) = 2
  /\ heap[wordsMem].slots = 2

\* a line of white space only, processed without any output
BlankWitness ==
  /\ pc = "read"
  /\ Len(hist) = 1
  /\ Len(hist[1].raw) >= 2
  /\ hist[1].state = "blank"
  /\ stdout = <<>>

----------------------------------------------------------------------------
(* Output blocks *)

Echo(h) == [type |-> "query", words |-> Tokens(h.raw)]

EntryOf(doc) ==
  [type |-> "entry", score |-> doc.score, docID |-> doc.docID,
   url |-> get_url(doc.docID)]

\* the block of a query whose ranked array is docs
Block(h) ==
  <<Echo(h)>>
    \o (IF h.docs = <<>> THEN <<[type |-> "nomatch"]>>
        ELSE <<[type |-> "matches", n |-> Len(h.docs)]>>
               \o [j \in 1..Len(h.docs) |-> EntryOf(h.docs[j])])
    \o <<Separator>>

----------------------------------------------------------------------------
(* The index *)

\* C13: no step of the query loop changes the index: the same words map to
\* the same counters sets, and each of these sets holds the same nodes in
\* the same state after the step as before it
IndexIsReadOnly ==
  [][/\ index' = index
     /\ \A w \in DOMAIN index : heap'[index[w]] = heap[index[w]]]_vars

\* a query of two groups, one with two terms, that looked up a term the
\* index holds and a term it lacks, has been evaluated and has a match
IndexWitness ==
  /\ Evaluated
  /\ Len(groups) = 2
  /\ \E n \in 1..2 : Len(GroupTerms(groups[n])) = 2
  /\ \E k \in 1..Len(lookups) : lookups[k] \in DOMAIN index
  /\ \E k \in 1..Len(lookups) : lookups[k] \notin DOMAIN index
  /\ \E d \in AllDocs : Score(heap[results].items, d) > 0

----------------------------------------------------------------------------
(* The accumulator of an AND-group *)

PostedDocs(t) == {d \in AllDocs : Posted(t, d)}

\* C14: in every AND-group, after each term beyond the first no document's
\* accumulator score is above its score before that term or below zero,
\* and after every term the accumulator tracks exactly the documents of the
\* first term's postings, whether or not the index holds the term
AccumulatorShrinks ==
  Evaluated =>
    \A n \in 1..Len(groups) :
      /\ Len(groups[n].steps) = Len(GroupTerms(groups[n]))
      /\ \A j \in 1..Len(groups[n].steps) :
           /\ Keys(groups[n].steps[j]) = PostedDocs(GroupTerms(groups[n])[1])
           /\ \A d \in AllDocs : Score(groups[n].steps[j], d) >= 0
           /\ j > 1 =>
                \A d \in AllDocs :
                  Score(groups[n].steps[j], d) <= Score(groups[n].steps[j - 1], d)
      /\ Keys(groups[n].items) = PostedDocs(GroupTerms(groups[n])[1])

\* a group whose second term is in the index: it lowers the score of one
\* document without zeroing it and zeroes another, which is still tracked
AccumulatorWitness ==
  /\ Evaluated
  /\ \E n \in 1..Len(groups) :
       /\ Len(groups[n].steps) >= 2
       /\ GroupTerms(groups[n])[2] \in DOMAIN index
       /\ \E d \in Keys(groups[n].steps[2]) :
            /\ Score(groups[n].steps[2], d) > 0
            /\ Score(groups[n].steps[2], d) < Score(groups[n].steps[1], d)
       /\ \E d \in Keys(groups[n].steps[2]) :
            /\ Score(groups[n].steps[1], d) > 0
            /\ Score(groups[n].steps[2], d) = 0

\* a group whose second term the index lacks: the documents of the first
\* term's postings are still tracked, with score 0
AccumulatorZeroedWitness ==
  /\ Evaluated
  /\ \E n \in 1..Len(groups) :
       /\ Len(groups[n].steps) >= 2
       /\ GroupTerms(groups[n])[2] \notin DOMAIN index
       /\ \E d \in Keys(groups[n].steps[2]) :
            /\ Score(groups[n].steps[1], d) > 0
            /\ Score(groups[n].steps[2], d) = 0

----------------------------------------------------------------------------
(* Order independence *)

Perms(n) == {p \in [1..n -> 1..n] : \A i, j \in 1..n : p[i] = p[j] => i = j}

\* x and y hold the same elements the same number of times
SameBag(x, y) ==
  /\ Len(x) = Len(y)
  /\ \E p \in Perms(Len(x)) : \A i \in 1..Len(x) : y[p[i]] = x[i]

\* the AND-groups of a valid token sequence, each as the sequence of its
\* terms
RECURSIVE GroupsOf(_)
GroupsOf(ws) ==
  IF OrPositions(ws) = {} THEN <<SelectSeq(ws, IsTerm)>>
  ELSE <<SelectSeq(SubSeq(ws, 1, NthOr(ws, 1) - 1), IsTerm)>>
         \o GroupsOf(SubSeq(ws, NthOr(ws, 1) + 1, Len(ws)))

\* v has the groups of ws in some order, each with its terms in some order
SameGroups(v, ws) ==
  /\ Len(GroupsOf(v)) = Len(GroupsOf(ws))
  /\ \E p \in Perms(Len(GroupsOf(ws))) :
       \A n \in 1..Len(GroupsOf(ws)) :
         SameBag(GroupsOf(ws)[n], GroupsOf(v)[p[n]])

\* the valid queries that permute the terms inside the groups of ws, or its
\* groups
Rearrangements(ws) ==
  {v \in {[k \in 1..Len(ws) |-> ws[p[k]]] : p \in Perms(Len(ws))} :
     GrammarOk(v) /\ SameGroups(v, ws)}

\* what rank_and_print prints for the ScoreMap evaluate_query returned
RankedOutput(r) == rank_and_print(r.heap, r.orResult).out

Pairs(out) ==
  {[docID |-> Entries(out)[k].docID, score |-> Entries(out)[k].score] :
     k \in 1..Len(Entries(out))}

HasTies(out) ==
  \E j, k \in 1..Len(Entries(out)) :
    j # k /\ Entries(out)[j].score = Entries(out)[k].score

\* C15: a query rearranged by permuting the terms inside its AND-groups or
\* by permuting its AND-groups gives the same ranked output: the same
\* documents with the same scores in the same order
OrderIndependent ==
  Evaluated =>
    \A v \in Rearrangements(words) :
      RankedOutput(evaluate_query(heap, index, v))
        = rank_and_print(heap, results).out

\* what does hold of a rearranged query: the same documents with the same
\* scores, and the same order when no two documents score the same
OrderIndependentButTies ==
  Evaluated =>
    \A v \in Rearrangements(words) :
      /\ Pairs(RankedOutput(evaluate_query(heap, index, v)))
           = Pairs(rank_and_print(heap, results).out)
      /\ ~HasTies(rank_and_print(heap, results).out) =>
           RankedOutput(evaluate_query(heap, index, v))
             = rank_and_print(heap, results).out

\* a query of two groups, one of two terms, with more rearrangements than
\* itself, and a group whose first term the index lacks
RearrangedWitness ==
  /\ Evaluated
  /\ Len(groups) = 2
  /\ Cardinality(Rearrangements(words)) >= 4
  /\ \E n \in 1..2 : GroupTerms(groups[n])[1] \notin DOMAIN index
  /\ \E d \in AllDocs : Score(heap[results].items, d) > 0

----------------------------------------------------------------------------
(* The objects of a query *)

IndexObjects == {index[w] : w \in DOMAIN index}
QueryObjects == (1..Len(heap)) \ IndexObjects
LiveObjects  == {p \in QueryObjects : heap[p].live}

\* C16: no object is released twice or accessed after its release, the
\* counters sets of the index are never released, and the objects a query
\* allocates are all released when the next line is about to be read:
\* during evaluation only the token array is live, during ranking only the
\* token array and the final ScoreMap (the placeholder and the ScoreMap of
\* each AND-group, one per group, have been released or have become the
\* final ScoreMap), and the ranking array is released before rank_and_print
\* returns
Lifecycle ==
  /\ \A p \in 1..Len(heap) :
       /\ heap[p].frees <= 1
       /\ ~heap[p].stale
       /\ heap[p].live <=> heap[p].frees = 0
  /\ \A p \in IndexObjects : heap[p].live /\ heap[p].kind = "counters"
  /\ pc \in {"read", "tokenize", "done"} => LiveObjects = {}
  /\ pc = "evaluate" =>
       LiveObjects = {wordsMem} /\ heap[wordsMem].kind = "words"
  /\ pc = "rank" =>
       /\ LiveObjects = {wordsMem, results}
       /\ heap[wordsMem].kind = "words"
       /\ heap[results].kind = "counters"
       /\ Len(heap) = wordsMem + 1 + Len(groups)
  /\ (pc = "read" /\ hist # <<>> /\ hist[Len(hist)].state = "ranked") =>
       IF hist[Len(hist)].docs = <<>>
       THEN heap[Len(heap)].kind = "counters"
       ELSE /\ heap[Len(heap)].kind = "docs"
            /\ heap[Len(heap)].slots = Len(hist[Len(hist)].docs)
  /\ (pc = "read" /\ hist # <<>> /\ hist[Len(hist)].state # "ranked") =>
       IF OnlyLettersAndSpace(hist[Len(hist)].raw)
       THEN wordsMem = Len(heap) /\ heap[wordsMem].kind = "words"
       ELSE wordsMem = NULL

\* the input has ended after a line rejected for its grammar, a query
\* without a match and a query of two groups with a match
LifecycleWitness ==
  /\ pc = "done"
  /\ \E k \in 1..Len(hist) :
       hist[k].state = "rejected" /\ hist[k].words # <<>>
  /\ \E k \in 1..Len(hist) :
       hist[k].state = "ranked" /\ hist[k].docs = <<>>
  /\ \E k \in 1..Len(hist) :
       /\ hist[k].state = "ranked"
       /\ hist[k].docs # <<>>
       /\ \E j \in 1..Len(hist[k].words) : hist[k].words[j] = OR

----------------------------------------------------------------------------
(* Termination and progress *)

RECURSIVE Raws(_, _)
Raws(hs, k) == IF k > Len(hs) THEN <<>> ELSE hs[k].raw \o Raws(hs, k + 1)

\* the loop takes the lines off the stream in order, one per step at most
InInputOrder ==
  /\ Raws(hist', 1) \o stdin' = Raws(hist, 1) \o stdin
  /\ Len(hist') \in {Len(hist), Len(hist) + 1}
  /\ \A k \in 1..Len(hist) : hist'[k].raw = hist[k].raw

\* a line is read only when the lines before it are done with
OneAtATime == \A k \in 1..(Len(hist) - 1) : hist[k].state \in Final

\* the loop has ended: the input is used up and every line is done with
EndedAtEof ==
  pc = "done" => stdin = <<>> /\ \A k \in 1..Len(hist) : hist[k].state \in Final

\* the positions at which the loop of evaluate_query started its
\* iterations strictly increase, and it left the loop at the end of the
\* tokens
PositionIncreases ==
  Evaluated =>
    /\ Len(groups) <= Len(words)
    /\ \A n \in 1..Len(groups) :
         /\ groups[n].start < groups[n].end
         /\ groups[n].end <= Len(words) + 1
         /\ n > 1 => groups[n].start > groups[n - 1].start
    /\ groups[Len(groups)].end = Len(words) + 1

\* every step of the loop moves control
EveryStepMoves == [][pc' # pc]_vars

\* C17: the query loop ends for every input stream, and only when the
\* input is used up, after taking the lines one at a time in input order,
\* whatever lines were rejected, blank or without a match; and the
\* position of evaluate_query's loop strictly increases from iteration to
\* iteration up to the end of the tokens
Terminates ==
  /\ <>(pc = "done")
  /\ [](EndedAtEof /\ OneAtATime /\ PositionIncreases)
  /\ [][InInputOrder]_vars

\* the loop has ended after a rejected line, a blank line and a query
\* without a match, in this order
TerminatesWitness ==
  /\ pc = "done"
  /\ Len(hist) = 3
  /\ hist[1].state = "rejected"
  /\ hist[2].state = "blank"
  /\ hist[3].state = "ranked"
  /\ hist[3].docs = <<>>
  /\ Len(groups) = 1 /\ Len(hist[3].words) = 3

----------------------------------------------------------------------------
(* Lines and queries *)

EndsLine(raw) == raw # <<>> /\ raw[Len(raw)] = "\n"

\* what fgets handed to the loop is a whole line of the input: it ends
\* with the newline, or it is the last of the stream and the stream does
\* not end with a newline
WholeLine(k) == EndsLine(hist[k].raw) \/ (k = Len(hist) /\ stdin = <<>>)

\* one outcome: nothing, one diagnostic, or one block
OneOutcome(h) ==
  \/ h.state = "blank" /\ h.out = <<>> /\ h.err = <<>>
  \/ h.state = "rejected" /\ h.out = <<>> /\ Len(h.err) = 1
  \/ /\ h.state = "ranked"
     /\ h.err = <<>>
     /\ h.out # <<>>
     /\ h.out[1].type = "query"
     /\ h.out[Len(h.out)] = Separator
     /\ \A j \in 2..(Len(h.out) - 1) : h.out[j].type \notin {"query", "separator"}

\* C18: every line of the input, whatever its length, is one query: what
\* the loop processes as a query is a whole line, never a part of one, and
\* it yields no output, or one diagnostic, or one result block
OneLineOneQuery ==
  \A k \in 1..Len(hist) :
    /\ WholeLine(k)
    /\ hist[k].state \in Final => OneOutcome(hist[k])

\* what holds of every line: what the loop processes as a query is a whole
\* line or fills the line buffer, and it has one outcome
OneBufferOneQuery ==
  \A k \in 1..Len(hist) :
    /\ WholeLine(k) \/ Len(hist[k].raw) = LINE_SIZE - 1
    /\ hist[k].state \in Final => OneOutcome(hist[k])

\* a line longer than the buffer has been processed as two queries, each
\* with a result block: its term was cut in two at the buffer boundary
SplitWitness ==
  /\ Len(hist) >= 2
  /\ \E k \in 1..(Len(hist) - 1) :
       /\ ~EndsLine(hist[k].raw)
       /\ hist[k].raw[Len(hist[k].raw)] \in Letters
       /\ hist[k + 1].raw[1] \in Letters
       /\ hist[k].state = "ranked"
       /\ hist[k + 1].state = "ranked"

====
